---- MODULE Spec2Model ----
(***************************************************************************)
(* Face-recognition inference service (server/face-recognition).           *)
(*                                                                         *)
(*   config.py          capability flags, MIN_FACE_SIZE, MAX_WORKERS       *)
(*   face_processor.py  FaceProcessor: model initialisation with CPU       *)
(*                      fallback, detect_faces, process_image_file,        *)
(*                      process_batch, processing_stats                    *)
(*   app.py             get_face_processor (lazy global), the              *)
(*                      /process-photo and /compare-faces handlers         *)
(*                                                                         *)
(* Three specifications share the variables:                               *)
(*   Spec        the Flask service: one thread per request, requests run   *)
(*               concurrently, the session is created lazily;              *)
(*   SpecDetect  a client calling detect_faces on one constructed          *)
(*               FaceProcessor, one call after the other;                   *)
(*   SpecBatch   one call of process_batch on a constructed FaceProcessor, *)
(*               sequential or with pool workers.                          *)
(*                                                                         *)
(* Units: box coordinates are in tenths of a pixel (the detector returns   *)
(* floats), elapsed times in tenths of a second.                           *)
(***************************************************************************)
EXTENDS Integers, Sequences, FiniteSets, TLC

(***************************************************************************)
(* Bounds of the model.                                                    *)
(***************************************************************************)
\* number of request threads (Spec), of sequential calls (SpecDetect)
NThreads == 3
\* longest raw detection list drawn in SpecDetect
MaxFaces == 2
\* calls the client makes in SpecDetect
MaxCalls == 3
\* FaceProcessor objects built in SpecInit
MaxObjects == 2
\* longest key list handed to process_batch
MaxBatch == 3
\* largest elapsed time of one detection, in tenths of a second
MaxElapsed == 2

(***************************************************************************)
(* Program constants.                                                      *)
(***************************************************************************)
\* app.py: MAX_WORKERS = 2, the capacity given to each request's semaphore
MAX_WORKERS == 2
\* config.py: MAX_WORKERS, as configured by the environment (MAX_WORKERS=2)
CFG_MAX_WORKERS == 2
\* config.py: MIN_FACE_SIZE, default 50 pixels
MIN_FACE_SIZE == 50
\* config.py: GPU_DEVICE_ID, default 0
GPU_DEVICE_ID == 0

Threads == 1..NThreads

VARIABLES
    cfg,             \* config.py module state after import
    face_processor,  \* app.py global: 0 is None, else an index into objs
    objs,            \* every FaceProcessor whose __init__ ran, in order
    pc,              \* per thread: position in its handler
    req,             \* per thread: the request (or call) being served
    processing_lock, \* per thread: value of the request's own Semaphore
    processor,       \* per thread: local `processor` (index into objs, 0 none)
    faces,           \* per thread: local `faces` / `valid_faces`
    elapsed,         \* per thread: local `processing_time`
    tmp,             \* per thread: value read by a read-modify-write in flight
    response,        \* per thread: what the handler returned
    hist,            \* history: what each thread saw when it started
    calls,           \* history: per object, detect_faces calls that returned
    batch            \* process_batch: its locals and its pool

vars == <<cfg, face_processor, objs, pc, req, processing_lock, processor,
          faces, elapsed, tmp, response, hist, calls, batch>>

thvars == <<pc, req, processing_lock, processor, faces, elapsed, tmp, response>>

(***************************************************************************)
(* config.py: capability probing and the flags derived from it.  A machine *)
(* is what the two probes meet:                                            *)
(*   torch  "missing"      import torch fails                              *)
(*          "raises"       torch.cuda.is_available() raises                *)
(*          "no_cuda"      is_available() answers False                    *)
(*          "query_fails"  is_available() answers True, a later device     *)
(*                         query (count, name, properties) raises          *)
(*          "cuda"         every call succeeds                             *)
(*   ort    "missing" / "raises" / "ok" with the providers it lists        *)
(***************************************************************************)
TorchKinds == {"missing", "raises", "no_cuda", "query_fails", "cuda"}

ProviderSets ==
    { {"CPUExecutionProvider"},
      {"CUDAExecutionProvider", "CPUExecutionProvider"},
      {"TensorrtExecutionProvider", "CUDAExecutionProvider", "CPUExecutionProvider"},
      {"DmlExecutionProvider", "CPUExecutionProvider"} }

OrtKinds ==
    { [state |-> "missing", providers |-> {}], [state |-> "raises", providers |-> {}] }
    \cup { [state |-> "ok", providers |-> ps] : ps \in ProviderSets }

Machines == [torch : TorchKinds, ort : OrtKinds]

\* the first probe: has_cuda is assigned before the device queries run
ProbeCuda(m) == m.torch \in {"query_fails", "cuda"}

\* the second probe
ProbeOnnxGpu(m) ==
    /\ m.ort.state = "ok"
    /\ \/ "CUDAExecutionProvider" \in m.ort.providers
       \/ "TensorrtExecutionProvider" \in m.ort.providers

detect_gpu_availability(m) ==
    [has_cuda |-> ProbeCuda(m), has_gpu_onnx |-> ProbeOnnxGpu(m)]

\* the provider names of ONNX_PROVIDERS, in the order get_onnx_providers adds them
get_onnx_providers(m, onnx_gpu_available) ==
    LET avail == IF onnx_gpu_available /\ m.ort.state = "ok" THEN m.ort.providers ELSE {}
        opt(name) == IF name \in avail THEN <<name>> ELSE <<>>
    IN  opt("TensorrtExecutionProvider") \o opt("CUDAExecutionProvider")
          \o opt("DmlExecutionProvider") \o <<"CPUExecutionProvider">>

\* variant: the probes run and their answers stand whatever FORCE_CPU says
LoadConfigUnmasked(m, force_cpu, auto_detect, parallel, memopt) ==
    LET probed == IF auto_detect
                  THEN detect_gpu_availability(m)
                  ELSE [has_cuda |-> FALSE, has_gpu_onnx |-> FALSE]
    IN  [ machine |-> m,
          FORCE_CPU |-> force_cpu,
          GPU_AVAILABLE |-> probed.has_cuda \/ probed.has_gpu_onnx,
          CUDA_AVAILABLE |-> probed.has_cuda,
          ONNX_GPU_AVAILABLE |-> probed.has_gpu_onnx,
          ONNX_PROVIDERS |-> get_onnx_providers(m, probed.has_gpu_onnx),
          ENABLE_PARALLEL_PROCESSING |-> parallel,
          ENABLE_MEMORY_OPTIMIZATION |-> memopt ]

\* the module globals after `import config` on machine m with the given settings
LoadConfig(m, force_cpu, auto_detect, parallel, memopt) ==
    LET probed == IF auto_detect /\ ~force_cpu
                  THEN detect_gpu_availability(m)
                  ELSE [has_cuda |-> FALSE, has_gpu_onnx |-> FALSE]
        onnx_gpu == probed.has_gpu_onnx /\ ~force_cpu
    IN  [ machine |-> m,
          FORCE_CPU |-> force_cpu,
          GPU_AVAILABLE |-> (probed.has_cuda \/ probed.has_gpu_onnx) /\ ~force_cpu,
          CUDA_AVAILABLE |-> probed.has_cuda /\ ~force_cpu,
          ONNX_GPU_AVAILABLE |-> onnx_gpu,
          ONNX_PROVIDERS |-> get_onnx_providers(m, onnx_gpu),
          ENABLE_PARALLEL_PROCESSING |-> parallel,
          ENABLE_MEMORY_OPTIMIZATION |-> memopt ]

Configs ==
    { LoadConfig(m, f, a, p, o) : m \in Machines, f \in BOOLEAN, a \in BOOLEAN,
                                  p \in BOOLEAN, o \in BOOLEAN }

\* a machine without accelerator, and one with CUDA seen by both probes
CpuMachine ==
    [torch |-> "missing", ort |-> [state |-> "ok", providers |-> {"CPUExecutionProvider"}]]

CudaMachine ==
    [torch |-> "cuda",
     ort |-> [state |-> "ok",
              providers |-> {"CUDAExecutionProvider", "CPUExecutionProvider"}]]

(***************************************************************************)
(* face_processor.py: construction of a FaceProcessor.                     *)
(***************************************************************************)
NoApp == [providers |-> <<>>, ctx_id |-> 0, det_size |-> 0]

NewStats ==
    [ total_processed |-> 0, total_faces_detected |-> 0,
      average_processing_time |-> [m |-> <<>>, e |-> 0],
      gpu_memory_usage |-> 0 ]

\* FaceProcessor.__init__ up to the call of _initialize_model; `loads` and
\* `raised` are history: the load attempts made, and whether __init__ raised.
\* `dicts` holds the usage dicts _log_gpu_memory has made, each a mutable
\* object of its own: gpu_memory_usage is 0 or the number of one of them
NewObject ==
    [ app |-> NoApp, model_loaded |-> FALSE, using_gpu |-> FALSE, device_info |-> "",
      processing_stats |-> NewStats, dicts |-> <<>>, loads |-> <<>>, raised |-> FALSE ]

\* what one attempt to load the model can do
LoadOutcomes == {"ok", "analysis_fails", "prepare_fails"}

\* insightface.app.FaceAnalysis(...) then app.prepare(...) on self
LoadModel(self, providers, ctx_id, det_size, outcome) ==
    LET session == [providers |-> providers, ctx_id |-> ctx_id, det_size |-> det_size]
    IN  [self EXCEPT
           !.app = IF outcome = "analysis_fails" THEN @ ELSE session,
           !.model_loaded = IF outcome = "ok" THEN TRUE ELSE @,
           !.loads = Append(@, [providers |-> providers, ctx_id |-> ctx_id,
                                det_size |-> det_size, outcome |-> outcome])]

\* the dict _log_gpu_memory builds from the torch queries
UsageDict ==
    [ allocated_mb |-> "measured", reserved_mb |-> "measured", total_mb |-> "measured",
      utilization_percent |-> "measured" ]

\* variant: a failing torch call demotes the session to the CPU
LogGpuMemoryDemotes(self, c, works) ==
    IF c.CUDA_AVAILABLE /\ works
    THEN [self EXCEPT !.dicts = Append(@, UsageDict),
                      !.processing_stats.gpu_memory_usage = Len(self.dicts) + 1]
    ELSE [self EXCEPT !.using_gpu = FALSE, !.device_info = "CPU (fallback)"]

\* _log_gpu_memory: a new usage dict replaces gpu_memory_usage when CUDA is
\* available and every torch call works this time; any failure is swallowed
log_gpu_memory(self, c, works) ==
    IF c.CUDA_AVAILABLE /\ works
    THEN [self EXCEPT !.dicts = Append(@, UsageDict),
                      !.processing_stats.gpu_memory_usage = Len(self.dicts) + 1]
    ELSE self

\* whether the torch calls work on the machine as it was probed
TorchWorks(c) == c.machine.torch = "cuda"

\* variant: a failed CPU load is logged and the constructor returns
FallbackSwallows(self, outcome) ==
    LET s1 == [self EXCEPT !.using_gpu = FALSE, !.device_info = "CPU (fallback)"]
    IN  LoadModel(s1, <<"CPUExecutionProvider">>, -1, 640, outcome)

fallback_to_cpu(self, outcome) ==
    LET s1 == [self EXCEPT !.using_gpu = FALSE, !.device_info = "CPU (fallback)"]
        s2 == LoadModel(s1, <<"CPUExecutionProvider">>, -1, 640, outcome)
    IN  IF outcome = "ok" THEN s2 ELSE [s2 EXCEPT !.raised = TRUE]

\* variant: the except branch never falls back
FallsBackNever(self) == FALSE

\* whether the except branch of _initialize_model falls back (else it raises)
FallsBack(self) == self.using_gpu

initialize_model(self, c, first, second) ==
    LET cpu == c.FORCE_CPU \/ ~c.GPU_AVAILABLE
        s1 == IF cpu
              THEN [self EXCEPT !.device_info = "CPU", !.using_gpu = FALSE]
              ELSE [self EXCEPT !.using_gpu = TRUE,
                                !.device_info = IF c.CUDA_AVAILABLE THEN "GPU 0 (CUDA)"
                                                ELSE IF c.ONNX_GPU_AVAILABLE THEN "GPU 0 (ONNX)"
                                                ELSE "GPU 0"]
        providers == IF cpu THEN <<"CPUExecutionProvider">> ELSE c.ONNX_PROVIDERS
        ctx_id == IF cpu THEN -1 ELSE GPU_DEVICE_ID
        det_size == IF ~s1.using_gpu THEN 640 ELSE 1024
        s2 == LoadModel(s1, providers, ctx_id, det_size, first)
    IN  IF first = "ok"
        THEN IF s2.using_gpu THEN log_gpu_memory(s2, c, TorchWorks(c)) ELSE s2
        ELSE IF FallsBack(s2)
             THEN fallback_to_cpu(s2, second)
             ELSE [s2 EXCEPT !.raised = TRUE]

\* FaceProcessor(): the object as __init__ leaves it
FaceProcessor(c, first, second) == initialize_model(NewObject, c, first, second)

(***************************************************************************)
(* Python floats: IEEE 754 binary64, round to nearest, ties to even.  A    *)
(* positive float is m * 2^e with m of exactly 53 bits; m is written in    *)
(* base 2^14, least significant limb first (TLC integers have 32 bits).    *)
(* 0 has no limb.  Subnormals, infinities and signs do not occur in the    *)
(* averages.                                                               *)
(***************************************************************************)
Limb == 16384
LimbBits == 14
Precision == 53

RECURSIVE Pow2(_)
Pow2(k) == IF k = 0 THEN 1 ELSE 2 * Pow2(k - 1)

RECURSIVE Strip(_)
Strip(a) ==
    IF a = <<>> THEN a
    ELSE IF a[Len(a)] = 0 THEN Strip(SubSeq(a, 1, Len(a) - 1))
    ELSE a

RECURSIVE BigAddCarry(_, _, _)
BigAddCarry(a, b, carry) ==
    IF a = <<>> /\ b = <<>> THEN (IF carry = 0 THEN <<>> ELSE <<carry>>)
    ELSE LET x == IF a = <<>> THEN 0 ELSE Head(a)
             y == IF b = <<>> THEN 0 ELSE Head(b)
             sum == x + y + carry
         IN  <<sum % Limb>> \o BigAddCarry(IF a = <<>> THEN a ELSE Tail(a),
                                          IF b = <<>> THEN b ELSE Tail(b),
                                          sum \div Limb)

BigAdd(a, b) == Strip(BigAddCarry(a, b, 0))

RECURSIVE BigMulLimb(_, _, _)
BigMulLimb(a, d, carry) ==
    IF a = <<>> THEN (IF carry = 0 THEN <<>> ELSE <<carry>>)
    ELSE LET prod == Head(a) * d + carry
         IN  <<prod % Limb>> \o BigMulLimb(Tail(a), d, prod \div Limb)

RECURSIVE BigMul(_, _)
BigMul(a, b) ==
    IF b = <<>> THEN <<>>
    ELSE BigAdd(BigMulLimb(a, Head(b), 0), Strip(<<0>> \o BigMul(a, Tail(b))))

\* a * 2^k
RECURSIVE ShiftLeft(_, _)
ShiftLeft(a, k) ==
    IF a = <<>> THEN a
    ELSE IF k >= LimbBits THEN <<0>> \o ShiftLeft(a, k - LimbBits)
    ELSE Strip(BigMulLimb(a, Pow2(k), 0))

\* a \div 2^k
RECURSIVE ShiftRight(_, _)
ShiftRight(a, k) ==
    IF a = <<>> THEN a
    ELSE IF k >= LimbBits THEN ShiftRight(Tail(a), k - LimbBits)
    ELSE Strip([i \in 1..Len(a) |->
                  (a[i] \div Pow2(k))
                  + (IF i < Len(a) THEN (a[i + 1] % Pow2(k)) * Pow2(LimbBits - k) ELSE 0)])

RECURSIVE SmallBits(_)
SmallBits(x) == IF x = 0 THEN 0 ELSE 1 + SmallBits(x \div 2)

BitLength(a) == IF a = <<>> THEN 0 ELSE LimbBits * (Len(a) - 1) + SmallBits(a[Len(a)])

IsOdd(a) == a # <<>> /\ a[1] % 2 = 1

\* floor(a / d) and a mod d for a small d, from the most significant limb down
RECURSIVE BigDivSmall(_, _)
BigDivSmall(a, d) ==
    IF a = <<>> THEN [quot |-> <<>>, rem |-> 0]
    ELSE LET up == BigDivSmall(Tail(a), d)
             cur == up.rem * Limb + Head(a)
         IN  [quot |-> <<cur \div d>> \o up.quot, rem |-> cur % d]

FZero == [m |-> <<>>, e |-> 0]

\* the float nearest to big * 2^e (+ a little more when inexact is TRUE)
RoundFloat(big, e, inexact) ==
    LET len == BitLength(big)
    IN  IF big = <<>> THEN FZero
        ELSE IF len <= Precision
        THEN [m |-> ShiftLeft(big, Precision - len), e |-> e - (Precision - len)]
        ELSE LET k == len - Precision
                 withGuard == ShiftRight(big, k - 1)
                 q == ShiftRight(withGuard, 1)
                 guard == IsOdd(withGuard)
                 sticky == inexact \/ ShiftLeft(withGuard, k - 1) # big
                 up == guard /\ (sticky \/ IsOdd(q))
                 m == IF up THEN BigAdd(q, <<1>>) ELSE q
             IN  IF BitLength(m) > Precision
                 THEN [m |-> ShiftRight(m, 1), e |-> e + k + 1]
                 ELSE [m |-> m, e |-> e + k]

\* x * y
FloatMul(x, y) ==
    IF x.m = <<>> \/ y.m = <<>> THEN FZero
    ELSE RoundFloat(BigMul(x.m, y.m), x.e + y.e, FALSE)

\* x + y
FloatAdd(x, y) ==
    IF x.m = <<>> THEN y
    ELSE IF y.m = <<>> THEN x
    ELSE LET e == IF x.e <= y.e THEN x.e ELSE y.e
         IN  RoundFloat(BigAdd(ShiftLeft(x.m, x.e - e), ShiftLeft(y.m, y.e - e)), e, FALSE)

\* a non-negative int below 2^28 as limbs, and back
BigOfInt(k) == Strip(<<k % Limb, k \div Limb>>)

RECURSIVE IntOfBig(_)
IntOfBig(a) == IF a = <<>> THEN 0 ELSE Head(a) + Limb * IntOfBig(Tail(a))

\* num / den on ints (true division), also the float a decimal literal
\* num/den denotes
FloatOf(num, den) ==
    LET d == BigDivSmall(ShiftLeft(BigOfInt(num), 70), den)
    IN  RoundFloat(Strip(d.quot), -70, d.rem # 0)

\* int(x) for x >= 0: the fraction is dropped
IntOfFloat(x) ==
    IF x.m = <<>> THEN 0
    ELSE IF x.e >= 0 THEN IntOfBig(ShiftLeft(x.m, x.e))
    ELSE IntOfBig(ShiftRight(x.m, -x.e))


(***************************************************************************)
(* face_processor.py: the detection pipeline as functions of the image.    *)
(* An image is its shape, what the opaque model does on it and the raw     *)
(* detections it returns; a raw detection whose record cannot be built     *)
(* (an attribute the model left unset) has good = FALSE.                   *)
(***************************************************************************)
Max2(a, b) == IF a >= b THEN a ELSE b

\* bbox.astype(int): numpy truncates a float towards zero
AsInt(v) == IF v >= 0 THEN v \div 10 ELSE -((-v) \div 10)

\* _optimize_image_for_processing: the shape <<height, width>> handed to the
\* model; cv2.resize raises on a target with a zero edge
MaxDim(using_gpu) == IF using_gpu THEN 1920 ELSE 1024

\* variant: every image larger than max_dim is halved
ScaleHalf(max_dim, longer) == FloatOf(1, 2)

\* scale = max_dim / max(height, width)
Scale(max_dim, longer) == FloatOf(max_dim, longer)

\* int(edge * scale)
Scaled(edge, scale) == IntOfFloat(FloatMul(FloatOf(edge, 1), scale))

optimize_image_for_processing(shape, using_gpu) ==
    LET height == shape[1]
        width == shape[2]
        max_dim == MaxDim(using_gpu)
        m == Max2(height, width)
    IN  IF m > max_dim
        THEN LET scale == Scale(max_dim, m)
                 new_width == Scaled(width, scale)
                 new_height == Scaled(height, scale)
             IN  [shape |-> <<new_height, new_width>>,
                  raised |-> new_width = 0 \/ new_height = 0]
        ELSE [shape |-> shape, raised |-> FALSE]

BoxWidth(face) == AsInt(face.bbox[3]) - AsInt(face.bbox[1])
BoxHeight(face) == AsInt(face.bbox[4]) - AsInt(face.bbox[2])

\* variant: the size test with > for >=
LargerThanMin(face) == BoxWidth(face) > MIN_FACE_SIZE /\ BoxHeight(face) > MIN_FACE_SIZE

\* the size test of the filter loop
LargeEnough(face) == BoxWidth(face) >= MIN_FACE_SIZE /\ BoxHeight(face) >= MIN_FACE_SIZE

\* face_info
FaceInfo(face) ==
    [ bbox |-> <<AsInt(face.bbox[1]), AsInt(face.bbox[2]), BoxWidth(face), BoxHeight(face)>>,
      confidence |-> face.det_score,
      embedding |-> face.embedding ]

\* the filter loop over `faces`, entered with valid_faces = valid: it ends
\* with the list built, or raises when a record cannot be built (valid_faces
\* is then what had been appended so far)
RECURSIVE FilterLoop(_, _)
FilterLoop(raw, valid) ==
    IF raw = <<>> THEN [raised |-> FALSE, valid_faces |-> valid]
    ELSE IF ~LargeEnough(Head(raw)) THEN FilterLoop(Tail(raw), valid)
    ELSE IF ~Head(raw).good THEN [raised |-> TRUE, valid_faces |-> valid]
    ELSE FilterLoop(Tail(raw), Append(valid, FaceInfo(Head(raw))))

FilterFaces(raw) == FilterLoop(raw, <<>>)

\* the try block of detect_faces up to the statistics
DetectTry(image, using_gpu) ==
    IF optimize_image_for_processing(image.shape, using_gpu).raised
        THEN [raised |-> TRUE, valid_faces |-> <<>>]
    ELSE IF image.model_raises THEN [raised |-> TRUE, valid_faces |-> <<>>]
    ELSE FilterFaces(image.raw)

\* the literals 0.9 and 0.1
F09 == FloatOf(9, 10)
F01 == FloatOf(1, 10)

\* processing_time = time.time() - start_time, for a call that takes
\* `tenths` tenths of a second
ProcessingTime(tenths) == FloatOf(tenths, 10)

\* variant: the weights exchanged
SmoothSwapped(avg, processing_time) ==
    FloatAdd(FloatMul(avg, F01), FloatMul(ProcessingTime(processing_time), F09))

\* average * 0.9 + processing_time * 0.1
Smooth(avg, processing_time) ==
    FloatAdd(FloatMul(avg, F09), FloatMul(ProcessingTime(processing_time), F01))

AsAverage(processing_time) == ProcessingTime(processing_time)

(***************************************************************************)
(* Inputs.                                                                 *)
(***************************************************************************)
FaceBig == [bbox |-> <<1000, 1000, 2207, 2302>>, det_score |-> 99,
            embedding |-> <<3, 4>>, good |-> TRUE]
\* 10.9, 20.2, 60.1, 70.9: the integer box is exactly 50 x 50
FaceExact == [bbox |-> <<109, 202, 601, 709>>, det_score |-> 90,
              embedding |-> <<4, 3>>, good |-> TRUE]
FaceNarrow == [bbox |-> <<0, 0, 499, 800>>, det_score |-> 80,
               embedding |-> <<5, 0>>, good |-> TRUE]
FaceShort == [bbox |-> <<0, 0, 800, 499>>, det_score |-> 70,
              embedding |-> <<0, 5>>, good |-> TRUE]
\* -5.5 .. 44.9 truncates to -5 .. 44: 49 wide
FaceNeg == [bbox |-> <<-55, 100, 449, 1000>>, det_score |-> 60,
            embedding |-> <<-3, 4>>, good |-> TRUE]
FaceBad == [bbox |-> <<200, 200, 900, 900>>, det_score |-> 50,
            embedding |-> <<0, 0>>, good |-> FALSE]
FaceBadSmall == [bbox |-> <<200, 200, 300, 300>>, det_score |-> 40,
                 embedding |-> <<0, 0>>, good |-> FALSE]

FaceCatalogue == {FaceBig, FaceExact, FaceNarrow, FaceShort, FaceNeg, FaceBad, FaceBadSmall}

RECURSIVE SeqsUpTo(_, _)
SeqsUpTo(S, n) ==
    IF n = 0 THEN { <<>> }
    ELSE LET shorter == SeqsUpTo(S, n - 1)
         IN  shorter \cup { Append(q, x) : q \in shorter, x \in S }

\* cost: the time detect_faces measures on the image, in tenths of a second
Image(shape, raw, model_raises, cost) ==
    [shape |-> shape, raw |-> raw, model_raises |-> model_raises, cost |-> cost]

\* 480 x 640 is passed through; 1 x 3000 is scaled to a zero height
Shapes == { <<480, 640>>, <<1, 3000>> }

\* every raw detection list on a sound image, and the two faults before the
\* filter loop: the resize raises, the model raises
AllImages ==
    { Image(<<480, 640>>, raw, FALSE, c) : raw \in SeqsUpTo(FaceCatalogue, MaxFaces),
                                          c \in 1..MaxElapsed }
    \cup { Image(<<1, 3000>>, <<FaceBig>>, FALSE, 1), Image(<<480, 640>>, <<FaceBig>>, TRUE, 1) }

ImgNone == Image(<<480, 640>>, <<>>, FALSE, 1)
ImgOne == Image(<<480, 640>>, <<FaceNarrow, FaceBig>>, FALSE, 2)
ImgFault == Image(<<480, 640>>, <<FaceBig>>, TRUE, 1)

(***************************************************************************)
(* app.py: the similarity ranking of compare_faces.  Embeddings are        *)
(* integer vectors of integer norm; a similarity is kept in hundredths.    *)
(* A vector of norm 0 makes numpy divide 0.0 by 0.0: the similarity is     *)
(* nan (a warning, no exception), and every comparison with nan is False.  *)
(***************************************************************************)
Dot(a, b) == a[1] * b[1] + a[2] * b[2]

Norm(a) == CHOOSE k \in 0..20 : k * k = Dot(a, a)

\* float('nan')
NaN == 999

Similarity(a, b) ==
    IF Norm(a) * Norm(b) = 0 THEN NaN ELSE (Dot(a, b) * 100) \div (Norm(a) * Norm(b))

\* x < y on floats
IsLT(x, y) == x # NaN /\ y # NaN /\ x < y

Reverse(s) == [i \in 1..Len(s) |-> s[Len(s) + 1 - i]]

\* list.sort on fewer than 64 items (CPython listsort): count_run finds the
\* run the list starts with, a strictly descending run is reversed, and
\* binarysort inserts the remaining items one by one
RECURSIVE CountRun(_, _, _)
CountRun(keys, n, descending) ==
    IF n = Len(keys) THEN n
    ELSE IF descending = IsLT(keys[n + 1], keys[n]) THEN CountRun(keys, n + 1, descending)
    ELSE n

RECURSIVE BinarySearch(_, _, _, _)
BinarySearch(items, pivot, l, r) ==
    IF l >= r THEN l
    ELSE LET p == l + ((r - l) \div 2)
         IN  IF IsLT(pivot.similarity, items[p].similarity)
             THEN BinarySearch(items, pivot, l, p)
             ELSE BinarySearch(items, pivot, p + 1, r)

RECURSIVE BinarySort(_, _)
BinarySort(items, start) ==
    IF start > Len(items) THEN items
    ELSE LET pivot == items[start]
             l == BinarySearch(items, pivot, 1, start)
             moved == SubSeq(items, 1, l - 1) \o <<pivot>> \o SubSeq(items, l, start - 1)
                        \o SubSeq(items, start + 1, Len(items))
         IN  BinarySort(moved, start + 1)

ListSort(items) ==
    IF Len(items) < 2 THEN items
    ELSE LET keys == [i \in 1..Len(items) |-> items[i].similarity]
             descending == IsLT(keys[2], keys[1])
             n == CountRun(keys, 2, descending)
             run == IF descending
                    THEN Reverse(SubSeq(items, 1, n)) \o SubSeq(items, n + 1, Len(items))
                    ELSE items
         IN  BinarySort(run, n + 1)

\* matches.sort(key=similarity, reverse=True): the list is reversed, sorted
\* ascending and reversed again, which keeps equal keys in their order
SortMatches(matches) == Reverse(ListSort(Reverse(matches)))

Matches(selfie_embedding, embeddings) ==
    SortMatches([i \in 1..Len(embeddings) |->
        [photoId |-> embeddings[i].photoId,
         similarity |-> Similarity(selfie_embedding, embeddings[i].embedding)]])

Stored == << [photoId |-> "p1", embedding |-> <<4, 3>>],
             [photoId |-> "p2", embedding |-> <<6, 8>>] >>

(***************************************************************************)
(* Requests and responses.                                                 *)
(***************************************************************************)
Request(kind, path, fetch, image, embeddings) ==
    [kind |-> kind, path |-> path, fetch |-> fetch, image |-> image,
     embeddings |-> embeddings]

NoRequest == Request("none", "", "", ImgNone, <<>>)

Reply(status, body, error) == [status |-> status, body |-> body, error |-> error]

NoReply == Reply(0, <<>>, "")

\* status of a handler left by SystemExit (sys.exit(1))
SystemExit == -1

\* what the service is asked in Spec
PhotoRequests ==
    { Request("process_photo", "missing", "ok", ImgNone, <<>>),
      Request("process_photo", "gridfs", "ok", ImgOne, <<>>),
      Request("process_photo", "local", "ok", ImgFault, <<>>) }

CompareRequests ==
    { Request("compare_faces", "missing", "ok", ImgNone, <<>>),
      Request("compare_faces", "selfie", "ok", ImgOne, Stored) }

(***************************************************************************)
(* History (not program state): for each thread what had happened when it  *)
(* started, and for each object the detect_faces calls that returned.      *)
(***************************************************************************)
NoHist ==
    [ first |-> 0,                               \* first session get_face_processor returned
      failed |-> FALSE,                          \* a FaceProcessor() has raised
      constructed |-> 0,                         \* calls of FaceProcessor()
      after_success |-> [t \in Threads |-> FALSE],
      after_failure |-> [t \in Threads |-> FALSE],
      attempted |-> [t \in Threads |-> FALSE] ]   \* t ran a download or a model load

\* times: the processing_time of each completed call, in tenths of a second
NoCalls == [returned |-> 0, completed |-> 0, faces |-> 0, times |-> <<>>]

Started(t) ==
    [hist EXCEPT !.after_success[t] = (hist.first # 0),
                 !.after_failure[t] = hist.failed]

\* requests arrive in the order of their thread numbers
MayStart(t) == pc[t] = "new" /\ (IF t = 1 THEN TRUE ELSE pc[t - 1] # "new")

InDetect(t) ==
    pc[t] \in {"in_detect", "tp_read", "tp_write", "tf_read", "tf_write",
               "avg_test", "avg_first", "avg_read", "avg_write"}

Stats(t) == objs[processor[t]].processing_stats

AsCount(k) == [n |-> k, e |-> 0]

(***************************************************************************)
(* app.py: the handlers, one thread per request.                           *)
(***************************************************************************)
\* a handler returns (a `with processing_lock` block releases on the way out)
Finish(t, reply) ==
    /\ pc' = [pc EXCEPT ![t] = "done"]
    /\ response' = [response EXCEPT ![t] = reply]
    /\ processing_lock' =
         [processing_lock EXCEPT ![t] = IF req'[t].kind = "process_photo" THEN @ + 1 ELSE @]

\* the handler goes on at `next`
Goto(t, next) ==
    /\ pc' = [pc EXCEPT ![t] = next]
    /\ UNCHANGED <<response, processing_lock>>

\* process_photo up to the call of get_face_processor: the request makes its
\* own Semaphore(MAX_WORKERS) and enters it
StartProcessPhoto(t) ==
    /\ MayStart(t)
    /\ MAX_WORKERS > 0
    /\ \E r \in PhotoRequests :
         /\ req' = [req EXCEPT ![t] = r]
         /\ IF r.path = "missing"
            THEN /\ pc' = [pc EXCEPT ![t] = "done"]
                 /\ response' = [response EXCEPT ![t] =
                        Reply(400, <<>>, "file_reference or photoPath is required")]
                 /\ processing_lock' = [processing_lock EXCEPT ![t] = MAX_WORKERS]
            ELSE /\ pc' = [pc EXCEPT ![t] = "gfp_check"]
                 /\ response' = response
                 /\ processing_lock' = [processing_lock EXCEPT ![t] = MAX_WORKERS - 1]
    /\ hist' = Started(t)
    /\ UNCHANGED <<cfg, face_processor, objs, processor, faces, elapsed, tmp, calls, batch>>

\* variant: only the selfie is required
SelfieMissing(r) == r.path = "missing"

\* `not selfie_data or not embeddings`
InvalidCompare(r) == r.path = "missing" \/ r.embeddings = <<>>

\* compare_faces up to the call of get_face_processor: no semaphore
StartCompareFaces(t) ==
    /\ MayStart(t)
    /\ \E r \in CompareRequests :
         /\ req' = [req EXCEPT ![t] = r]
         /\ IF InvalidCompare(r)
            THEN Finish(t, Reply(400, <<>>, "selfieData and embeddings are required"))
            ELSE IF r.fetch = "undecodable"
            THEN Finish(t, Reply(500, <<>>, "cvtColor"))
            ELSE Goto(t, "gfp_check")
    /\ hist' = Started(t)
    /\ UNCHANGED <<cfg, face_processor, objs, processor, faces, elapsed, tmp, calls, batch>>

\* where a handler goes on once it holds its processor
AfterGetFaceProcessor(t) == IF req[t].kind = "process_photo" THEN "acquire" ELSE "detect"

\* get_face_processor: `if face_processor is None`
GetFaceProcessorCheck(t) ==
    /\ pc[t] = "gfp_check"
    /\ IF face_processor # 0
       THEN /\ processor' = [processor EXCEPT ![t] = face_processor]
            /\ pc' = [pc EXCEPT ![t] = AfterGetFaceProcessor(t)]
       ELSE /\ processor' = processor
            /\ pc' = [pc EXCEPT ![t] = "gfp_create"]
    /\ UNCHANGED <<cfg, face_processor, objs, req, processing_lock, faces, elapsed,
                   tmp, response, hist, calls, batch>>

\* how a model load ends while the service runs: it succeeds, or prepare raises
ServiceLoadOutcomes == {"ok", "prepare_fails"}

\* what get_face_processor stores in the global
StoredSession(new) == new

\* get_face_processor, the None branch: download_models_if_needed, then
\* FaceProcessor(), then the store to the global
GetFaceProcessorCreate(t) ==
    /\ pc[t] = "gfp_create"
    /\ req' = req
    /\ \E downloaded \in BOOLEAN, first \in ServiceLoadOutcomes,
          second \in ServiceLoadOutcomes :
         IF ~downloaded
         THEN /\ Finish(t, Reply(SystemExit, <<>>, "sys.exit(1)"))
              /\ hist' = [hist EXCEPT !.attempted[t] = TRUE]
              /\ UNCHANGED <<face_processor, objs, processor, calls>>
         ELSE LET obj == FaceProcessor(cfg, first, second)
                  new == Len(objs) + 1
              IN  IF obj.raised
                  THEN \* the exception leaves the handler; the object is dropped
                       /\ Finish(t, Reply(500, <<>>, "initialization failed"))
                       /\ hist' = [hist EXCEPT !.attempted[t] = TRUE, !.failed = TRUE,
                                               !.constructed = @ + 1]
                       /\ UNCHANGED <<face_processor, objs, processor, calls>>
                  ELSE /\ objs' = Append(objs, obj)
                       /\ calls' = Append(calls, NoCalls)
                       /\ face_processor' = StoredSession(new)
                       /\ processor' = [processor EXCEPT ![t] = StoredSession(new)]
                       /\ Goto(t, AfterGetFaceProcessor(t))
                       /\ hist' = [hist EXCEPT !.attempted[t] = TRUE,
                                               !.constructed = @ + 1,
                                               !.first = IF @ = 0 THEN new ELSE @]
    /\ UNCHANGED <<cfg, faces, elapsed, tmp, batch>>

\* process_photo: the image is fetched and decoded (the two URL branches), or
\* read by process_image_file (a local path)
AcquireImage(t) ==
    /\ pc[t] = "acquire"
    /\ req' = req
    /\ faces' = faces
    /\ IF req[t].path = "local"
       THEN IF req[t].fetch = "ok" THEN Goto(t, "detect") ELSE Goto(t, "returned")
       ELSE IF req[t].fetch = "request_fails"
            THEN Finish(t, Reply(500, <<>>, "Could not download image"))
       ELSE IF req[t].fetch = "undecodable"
            THEN Finish(t, Reply(400, <<>>, "Could not decode image"))
       ELSE Goto(t, "detect")
    /\ UNCHANGED <<cfg, face_processor, objs, processor, elapsed, tmp, hist, calls, batch>>

(***************************************************************************)
(* face_processor.py: detect_faces, step by step.  Each access of          *)
(* processing_stats is a step of its own: `d[k] += v` reads, adds and      *)
(* stores, and another thread may run in between.                          *)
(***************************************************************************)
\* whether detect_faces is reached through process_image_file, which turns
\* every exception into an empty list
ThroughImageFile(t) ==
    \/ req[t].kind = "process_photo" /\ req[t].path = "local"
    \/ req[t].kind = "batch_item"

SetStats(t, field, value) ==
    objs' = [objs EXCEPT ![processor[t]].processing_stats[field] = value]

Returned(t, completed, n) ==
    calls' = [calls EXCEPT ![processor[t]] =
                 [returned |-> @.returned + 1,
                  completed |-> @.completed + (IF completed THEN 1 ELSE 0),
                  faces |-> @.faces + n,
                  times |-> IF completed THEN Append(@.times, req[t].image.cost)
                            ELSE @.times]]

\* variant: the exception is not caught into `return []`: what had been
\* appended to valid_faces is returned
DetectRaisedIgnored(outcome) == FALSE

\* whether the except branch of detect_faces is taken
DetectRaised(outcome) == outcome.raised

\* detect_faces, entry: the model_loaded test; past it the call is in progress
DetectEnter(t) ==
    /\ pc[t] = "detect"
    /\ req' = req
    /\ IF ~objs[processor[t]].model_loaded
       THEN \* raise RuntimeError("Face model not loaded")
            IF ThroughImageFile(t)
            THEN Goto(t, "returned")
            ELSE Finish(t, Reply(500, <<>>, "Face model not loaded"))
       ELSE Goto(t, "in_detect")
    /\ UNCHANGED <<cfg, face_processor, objs, processor, faces, elapsed, tmp, hist,
                   calls, batch>>

\* detect_faces, the try block up to the end of the filter loop
DetectModel(t) ==
    /\ pc[t] = "in_detect"
    /\ req' = req
    /\ LET outcome == DetectTry(req[t].image, objs[processor[t]].using_gpu)
       IN  IF DetectRaised(outcome)
           THEN /\ faces' = [faces EXCEPT ![t] = <<>>]
                /\ Goto(t, "returned")
                /\ Returned(t, FALSE, 0)
                /\ UNCHANGED elapsed
           ELSE /\ faces' = [faces EXCEPT ![t] = outcome.valid_faces]
                /\ elapsed' = [elapsed EXCEPT ![t] = req[t].image.cost]
                /\ Goto(t, "tp_read")
                /\ UNCHANGED calls
    /\ UNCHANGED <<cfg, face_processor, objs, processor, tmp, hist, batch>>

\* variant: a call counts one face at least
IncrementedAtLeastOne(old, by) == old + Max2(by, 1)

\* what `+= 1` and `+= len(valid_faces)` store
Incremented(old, by) == old + by

\* the average after one more call
NextAverage(avg, processing_time) ==
    IF avg.m = <<>> THEN AsAverage(processing_time) ELSE Smooth(avg, processing_time)

\* the three updates of processing_stats, run without interruption
UpdatedStats(stats, n, processing_time) ==
    [stats EXCEPT
        !.total_processed = Incremented(@, 1),
        !.total_faces_detected = Incremented(@, n),
        !.average_processing_time = NextAverage(@, processing_time)]

\* detect_faces from the model call to its return, taken as one step: the
\* service specification does not follow the interleaving inside it
DetectExit(t) ==
    /\ pc[t] = "in_detect"
    /\ req' = req
    /\ LET outcome == DetectTry(req[t].image, objs[processor[t]].using_gpu)
       IN  IF DetectRaised(outcome)
           THEN /\ faces' = [faces EXCEPT ![t] = <<>>]
                /\ Returned(t, FALSE, 0)
                /\ UNCHANGED <<objs, elapsed>>
           ELSE /\ faces' = [faces EXCEPT ![t] = outcome.valid_faces]
                /\ elapsed' = [elapsed EXCEPT ![t] = req[t].image.cost]
                /\ objs' = [objs EXCEPT ![processor[t]].processing_stats =
                              UpdatedStats(@, Len(outcome.valid_faces), req[t].image.cost)]
                /\ Returned(t, TRUE, Len(outcome.valid_faces))
    /\ Goto(t, "returned")
    /\ UNCHANGED <<cfg, face_processor, processor, tmp, hist, batch>>

\* a step of the statistics that only moves on and fills tmp
StatStep(t, from, to, read) ==
    /\ pc[t] = from
    /\ tmp' = [tmp EXCEPT ![t] = read]
    /\ pc' = [pc EXCEPT ![t] = to]
    /\ UNCHANGED <<cfg, face_processor, objs, req, processing_lock, processor, faces,
                   elapsed, response, hist, calls, batch>>

\* a step of the statistics that stores
StatStore(t, from, to, field, value) ==
    /\ pc[t] = from
    /\ SetStats(t, field, value)
    /\ tmp' = [tmp EXCEPT ![t] = AsCount(0)]
    /\ pc' = [pc EXCEPT ![t] = to]
    /\ UNCHANGED <<cfg, face_processor, req, processing_lock, processor, faces,
                   elapsed, response, hist, batch>>

\* self.processing_stats['total_processed'] += 1
ReadTotalProcessed(t) ==
    StatStep(t, "tp_read", "tp_write", AsCount(Stats(t).total_processed))

WriteTotalProcessed(t) ==
    /\ StatStore(t, "tp_write", "tf_read", "total_processed", Incremented(tmp[t].n, 1))
    /\ UNCHANGED calls

\* self.processing_stats['total_faces_detected'] += len(valid_faces)
ReadTotalFaces(t) ==
    StatStep(t, "tf_read", "tf_write", AsCount(Stats(t).total_faces_detected))

WriteTotalFaces(t) ==
    /\ StatStore(t, "tf_write", "avg_test", "total_faces_detected",
                 Incremented(tmp[t].n, Len(faces[t])))
    /\ UNCHANGED calls

\* if self.processing_stats['average_processing_time'] == 0
TestAverage(t) ==
    StatStep(t, "avg_test",
             IF Stats(t).average_processing_time.m = <<>> THEN "avg_first" ELSE "avg_read",
             AsCount(0))

\* the first branch stores processing_time; detect_faces then returns
StoreFirstAverage(t) ==
    /\ StatStore(t, "avg_first", "returned", "average_processing_time",
                 AsAverage(elapsed[t]))
    /\ Returned(t, TRUE, Len(faces[t]))

\* the second branch reads the average again, smooths and stores
ReadAverage(t) ==
    StatStep(t, "avg_read", "avg_write", Stats(t).average_processing_time)

StoreAverage(t) ==
    /\ StatStore(t, "avg_write", "returned", "average_processing_time",
                 Smooth(tmp[t], elapsed[t]))
    /\ Returned(t, TRUE, Len(faces[t]))

(***************************************************************************)
(* app.py: the handlers after detection.                                   *)
(***************************************************************************)
\* process_photo: jsonify({'faces': faces or []})
RespondProcessPhoto(t) ==
    /\ pc[t] = "returned"
    /\ req[t].kind = "process_photo"
    /\ req' = req
    /\ Finish(t, Reply(200, faces[t], ""))
    /\ UNCHANGED <<cfg, face_processor, objs, processor, faces, elapsed, tmp, hist,
                   calls, batch>>

\* compare_faces: no face is a 400, else the ranking on the first face
RespondCompareFaces(t) ==
    /\ pc[t] = "returned"
    /\ req[t].kind = "compare_faces"
    /\ req' = req
    /\ IF faces[t] = <<>>
       THEN Finish(t, Reply(400, <<>>, "No face detected in selfie"))
       ELSE Finish(t, Reply(200, Matches(faces[t][1].embedding, req[t].embeddings), ""))
    /\ UNCHANGED <<cfg, face_processor, objs, processor, faces, elapsed, tmp, hist,
                   calls, batch>>

\* detect_faces with every access of processing_stats a step
Detect(t) ==
    \/ DetectEnter(t)
    \/ DetectModel(t)
    \/ ReadTotalProcessed(t)
    \/ WriteTotalProcessed(t)
    \/ ReadTotalFaces(t)
    \/ WriteTotalFaces(t)
    \/ TestAverage(t)
    \/ StoreFirstAverage(t)
    \/ ReadAverage(t)
    \/ StoreAverage(t)

NoBatch ==
    [ state |-> "idle", image_paths |-> <<>>, results |-> <<>>, queue |-> <<>>,
      results_lock |-> 0, max_workers |-> 0 ]

IdleThreads ==
    /\ pc = [t \in Threads |-> "new"]
    /\ req = [t \in Threads |-> NoRequest]
    /\ processing_lock = [t \in Threads |-> 0]
    /\ processor = [t \in Threads |-> 0]
    /\ faces = [t \in Threads |-> <<>>]
    /\ elapsed = [t \in Threads |-> 0]
    /\ tmp = [t \in Threads |-> AsCount(0)]
    /\ response = [t \in Threads |-> NoReply]
    /\ hist = NoHist
    /\ batch = NoBatch

\* the service starts with no session, on a CPU or on a CUDA machine
ServiceConfigs ==
    { LoadConfig(CpuMachine, FALSE, TRUE, TRUE, TRUE),
      LoadConfig(CudaMachine, FALSE, TRUE, TRUE, TRUE) }

Init ==
    /\ cfg \in ServiceConfigs
    /\ face_processor = 0
    /\ objs = <<>>
    /\ calls = <<>>
    /\ IdleThreads

Next ==
    \E t \in Threads :
        \/ StartProcessPhoto(t)
        \/ StartCompareFaces(t)
        \/ GetFaceProcessorCheck(t)
        \/ GetFaceProcessorCreate(t)
        \/ AcquireImage(t)
        \/ DetectEnter(t)
        \/ DetectExit(t)
        \/ RespondProcessPhoto(t)
        \/ RespondCompareFaces(t)

Spec == Init /\ [][Next]_vars

(***************************************************************************)
(* SpecInit: FaceProcessor() on every machine and under every setting.     *)
(***************************************************************************)
\* a caller constructs a FaceProcessor; an object whose __init__ raised is
\* kept in objs for the record (raised = TRUE)
Construct ==
    /\ Len(objs) < MaxObjects
    /\ \E first \in LoadOutcomes, second \in LoadOutcomes :
         objs' = Append(objs, FaceProcessor(cfg, first, second))
    /\ calls' = Append(calls, NoCalls)
    /\ UNCHANGED <<cfg, face_processor, thvars, hist, batch>>

InitInit ==
    /\ cfg \in Configs
    /\ face_processor = 0
    /\ objs = <<>>
    /\ calls = <<>>
    /\ IdleThreads

NextInit == Construct

SpecInit == InitInit /\ [][NextInit]_vars

(***************************************************************************)
(* SpecDetect: one client thread calls detect_faces on one FaceProcessor,  *)
(* one call after the other.                                               *)
(***************************************************************************)
Client == 1

\* the processors FaceProcessor() can return under configuration c
Processors(c) ==
    { p \in { FaceProcessor(c, first, second) : first \in LoadOutcomes,
                                                 second \in LoadOutcomes } : ~p.raised }

\* the client calls detect_faces(image)
CallDetectFaces ==
    /\ pc[Client] = "new"
    /\ calls[1].returned < MaxCalls
    /\ \E image \in AllImages :
         req' = [req EXCEPT ![Client] = Request("detect_faces", "", "ok", image, <<>>)]
    /\ processor' = [processor EXCEPT ![Client] = 1]
    /\ faces' = [faces EXCEPT ![Client] = <<>>]
    /\ elapsed' = [elapsed EXCEPT ![Client] = 0]
    /\ Goto(Client, "detect")
    /\ UNCHANGED <<cfg, face_processor, objs, tmp, hist, calls, batch>>

\* the client takes the returned list and goes on
ClientReturn ==
    /\ pc[Client] = "returned"
    /\ req[Client].kind = "detect_faces"
    /\ req' = [req EXCEPT ![Client] = NoRequest]
    /\ Goto(Client, "new")
    /\ UNCHANGED <<cfg, face_processor, objs, processor, faces, elapsed, tmp, hist,
                   calls, batch>>

InitDetect ==
    /\ cfg \in ServiceConfigs
    /\ face_processor = 0
    /\ \E p \in Processors(cfg) : objs = <<p>>
    /\ calls = <<NoCalls>>
    /\ IdleThreads

NextDetect ==
    \/ CallDetectFaces
    \/ Detect(Client)
    \/ ClientReturn

SpecDetect == InitDetect /\ [][NextDetect]_vars

(***************************************************************************)
(* SpecBatch: one call of process_batch on a constructed FaceProcessor.    *)
(* In sequential mode the caller (thread Client) runs the loop; in         *)
(* parallel mode the pool's workers are the threads 1..max_workers and     *)
(* executor.map queues the paths in order.                                 *)
(***************************************************************************)
ImgBad == Image(<<480, 640>>, <<FaceBig, FaceBad>>, FALSE, 1)
ImgThin == Image(<<1, 3000>>, <<FaceBig>>, FALSE, 1)

\* the files the paths name: what cv2.imread finds there
\*   a.jpg  one face large enough     b.jpg  a record that cannot be built
\*   c.jpg  unreadable                 d.jpg  the model raises
\*   e.jpg  1 x 3000: the resize raises
BatchKeys == {"a.jpg", "b.jpg", "c.jpg", "d.jpg", "e.jpg"}

Readable(path) == path # "c.jpg"

FileImage(path) ==
    IF path = "a.jpg" THEN ImgOne
    ELSE IF path = "b.jpg" THEN ImgBad
    ELSE IF path = "d.jpg" THEN ImgFault
    ELSE IF path = "e.jpg" THEN ImgThin
    ELSE ImgNone

Min2(a, b) == IF a <= b THEN a ELSE b

\* results[path] = value
DictSet(d, key, value) ==
    [k \in (DOMAIN d) \cup {key} |-> IF k = key THEN value ELSE d[k]]

\* whether process_batch takes the thread-pool branch
ParallelMode == cfg.ENABLE_PARALLEL_PROCESSING /\ objs[1].using_gpu

\* ThreadPoolExecutor(max_workers=n) raises ValueError unless n > 0
PoolStarts(n) == n > 0

\* process_batch up to its loop or to the start of its pool
CallProcessBatch ==
    /\ batch.state = "idle"
    /\ \E image_paths \in SeqsUpTo(BatchKeys, MaxBatch) :
         IF ~ParallelMode
         THEN batch' = [batch EXCEPT !.state = "sequential", !.image_paths = image_paths,
                                     !.queue = image_paths]
         ELSE LET max_workers == Min2(CFG_MAX_WORKERS, Len(image_paths))
              IN  IF PoolStarts(max_workers)
                  THEN batch' = [batch EXCEPT !.state = "parallel",
                                              !.image_paths = image_paths,
                                              !.queue = image_paths,
                                              !.max_workers = max_workers]
                  ELSE batch' = [batch EXCEPT !.state = "raised",
                                              !.image_paths = image_paths]
    /\ UNCHANGED <<cfg, face_processor, objs, thvars, hist, calls>>

\* who may take the next path: the caller, or a worker of the pool
Runs(t) ==
    \/ batch.state = "sequential" /\ t = Client
    \/ batch.state = "parallel" /\ t <= batch.max_workers

\* the next path is taken and process_image_file reads it: an unreadable
\* file is an empty list at once
TakePath(t) ==
    /\ Runs(t)
    /\ pc[t] = "new"
    /\ batch.queue # <<>>
    /\ LET image_path == Head(batch.queue)
       IN  /\ req' = [req EXCEPT ![t] =
                        Request("batch_item", image_path,
                                IF Readable(image_path) THEN "ok" ELSE "undecodable",
                                FileImage(image_path), <<>>)]
           /\ Goto(t, IF Readable(image_path) THEN "detect" ELSE "returned")
    /\ batch' = [batch EXCEPT !.queue = Tail(@)]
    /\ processor' = [processor EXCEPT ![t] = 1]
    /\ faces' = [faces EXCEPT ![t] = <<>>]
    /\ elapsed' = [elapsed EXCEPT ![t] = 0]
    /\ UNCHANGED <<cfg, face_processor, objs, tmp, hist, calls>>

\* sequential mode: results[image_path] = self.process_image_file(image_path)
StoreSequential ==
    /\ batch.state = "sequential"
    /\ pc[Client] = "returned"
    /\ batch' = [batch EXCEPT !.results = DictSet(@, req[Client].path, faces[Client])]
    /\ req' = [req EXCEPT ![Client] = NoRequest]
    /\ Goto(Client, "new")
    /\ UNCHANGED <<cfg, face_processor, objs, processor, faces, elapsed, tmp, hist, calls>>

\* process_single: `with results_lock`
WorkerLock(t) ==
    /\ batch.state = "parallel"
    /\ pc[t] = "returned"
    /\ batch.results_lock = 0
    /\ batch' = [batch EXCEPT !.results_lock = t]
    /\ req' = req
    /\ Goto(t, "locked")
    /\ UNCHANGED <<cfg, face_processor, objs, processor, faces, elapsed, tmp, hist, calls>>

\* process_single: results[image_path] = faces, and the lock is released
WorkerStore(t) ==
    /\ batch.state = "parallel"
    /\ pc[t] = "locked"
    /\ batch' = [batch EXCEPT !.results = DictSet(@, req[t].path, faces[t]),
                              !.results_lock = 0]
    /\ req' = [req EXCEPT ![t] = NoRequest]
    /\ Goto(t, "new")
    /\ UNCHANGED <<cfg, face_processor, objs, processor, faces, elapsed, tmp, hist, calls>>

\* whether process_batch may return: the loop is over, or the pool has shut
\* down (the `with` block waits for every worker)
Joined ==
    /\ batch.queue = <<>>
    /\ \A t \in Threads : pc[t] = "new"

\* return results
ReturnBatch ==
    /\ batch.state \in {"sequential", "parallel"}
    /\ Joined
    /\ batch' = [batch EXCEPT !.state = "returned"]
    /\ UNCHANGED <<cfg, face_processor, objs, thvars, hist, calls>>

BatchConfigs ==
    { LoadConfig(m, FALSE, TRUE, parallel, TRUE) :
          m \in {CpuMachine, CudaMachine}, parallel \in BOOLEAN }

InitBatch ==
    /\ cfg \in BatchConfigs
    /\ face_processor = 0
    /\ \E p \in Processors(cfg) : objs = <<p>>
    /\ calls = <<NoCalls>>
    /\ IdleThreads

NextBatch ==
    \/ CallProcessBatch
    \/ StoreSequential
    \/ ReturnBatch
    \/ \E t \in Threads :
         \/ TakePath(t)
         \/ Detect(t)
         \/ WorkerLock(t)
         \/ WorkerStore(t)

SpecBatch == InitBatch /\ [][NextBatch]_vars

(***************************************************************************)
(* SpecMatch: one client posts compare_faces requests, one after the       *)
(* other, to a service whose session is already constructed.               *)
(***************************************************************************)
MaxCandidates == 3

\* the stored embeddings a request can carry; p3 has norm 0
Candidates ==
    { [photoId |-> "p1", embedding |-> <<4, 3>>],
      [photoId |-> "p2", embedding |-> <<6, 8>>],
      [photoId |-> "p3", embedding |-> <<0, 0>>],
      [photoId |-> "p4", embedding |-> <<-3, 4>>] }

ImgExact == Image(<<480, 640>>, <<FaceExact>>, FALSE, 1)

\* a selfie with a face (probe <<3, 4>> or <<4, 3>>), one without, and no
\* selfie at all, each with every list of stored embeddings
MatchRequests ==
    { Request("compare_faces", path, "ok", image, embeddings) :
        path \in {"selfie", "missing"}, image \in {ImgOne, ImgExact, ImgNone},
        embeddings \in SeqsUpTo(Candidates, MaxCandidates) }

\* compare_faces up to detect_faces
CallCompareFaces ==
    /\ pc[Client] = "new"
    /\ \E r \in MatchRequests :
         /\ req' = [req EXCEPT ![Client] = r]
         /\ IF InvalidCompare(r)
            THEN /\ Finish(Client, Reply(400, <<>>, "selfieData and embeddings are required"))
                 /\ UNCHANGED processor
            ELSE /\ calls[face_processor].returned < MaxCalls
                 /\ processor' = [processor EXCEPT ![Client] = face_processor]
                 /\ Goto(Client, "detect")
    /\ UNCHANGED <<cfg, face_processor, objs, faces, elapsed, tmp, hist, calls, batch>>

\* the client reads the response; its next request starts afresh
ClientDone ==
    /\ pc[Client] = "done"
    /\ pc' = [pc EXCEPT ![Client] = "new"]
    /\ req' = [req EXCEPT ![Client] = NoRequest]
    /\ response' = [response EXCEPT ![Client] = NoReply]
    /\ faces' = [faces EXCEPT ![Client] = <<>>]
    /\ UNCHANGED <<cfg, face_processor, objs, processing_lock, processor, elapsed, tmp,
                   hist, calls, batch>>

InitMatch ==
    /\ cfg \in ServiceConfigs
    /\ face_processor = 1
    /\ \E p \in Processors(cfg) : objs = <<p>>
    /\ calls = <<NoCalls>>
    /\ IdleThreads

NextMatch ==
    \/ CallCompareFaces
    \/ DetectEnter(Client)
    \/ DetectExit(Client)
    \/ RespondCompareFaces(Client)
    \/ ClientDone

SpecMatch == InitMatch /\ [][NextMatch]_vars

(***************************************************************************)
(* SpecNormalize: _optimize_image_for_processing on images of many sizes,  *)
(* and again on the image it returned.  tmp holds the local                *)
(* optimized_image of the caller.                                          *)
(***************************************************************************)
MaxEdgeSmall == 3
MaxEdgeNear == 2

\* edge lengths: tiny ones, ordinary ones, and the ones around both max_dim
EdgeSamples ==
    (1..MaxEdgeSmall) \cup {480, 1122, 1236, 1648, 2148, 3000, 3072, 4000}
    \cup { 1024 + k : k \in (0 - MaxEdgeNear)..MaxEdgeNear }
    \cup { 1920 + k : k \in (0 - MaxEdgeNear)..MaxEdgeNear }

\* optimized_image = self._optimize_image_for_processing(image)
CallOptimize ==
    /\ pc[Client] = "new"
    /\ \E height \in EdgeSamples, width \in EdgeSamples :
         /\ req' = [req EXCEPT ![Client] =
                       Request("normalize", "", "ok", Image(<<height, width>>, <<>>, FALSE, 1), <<>>)]
         /\ tmp' = [tmp EXCEPT ![Client] =
                       optimize_image_for_processing(<<height, width>>, objs[1].using_gpu)]
    /\ Goto(Client, "optimized")
    /\ UNCHANGED <<cfg, face_processor, objs, processor, faces, elapsed, hist, calls, batch>>

\* the image returned is passed to _optimize_image_for_processing again
OptimizeAgain ==
    /\ pc[Client] = "optimized"
    /\ ~tmp[Client].raised
    /\ req' = [req EXCEPT ![Client].image.shape = tmp[Client].shape]
    /\ tmp' = [tmp EXCEPT ![Client] =
                  optimize_image_for_processing(tmp[Client].shape, objs[1].using_gpu)]
    /\ Goto(Client, "optimized_again")
    /\ UNCHANGED <<cfg, face_processor, objs, processor, faces, elapsed, hist, calls, batch>>

\* the caller drops the images
OptimizeDone ==
    /\ pc[Client] \in {"optimized", "optimized_again"}
    /\ req' = [req EXCEPT ![Client] = NoRequest]
    /\ tmp' = [tmp EXCEPT ![Client] = AsCount(0)]
    /\ Goto(Client, "new")
    /\ UNCHANGED <<cfg, face_processor, objs, processor, faces, elapsed, hist, calls, batch>>

InitNormalize ==
    /\ cfg \in ServiceConfigs
    /\ face_processor = 0
    /\ \E p \in Processors(cfg) : objs = <<p>>
    /\ calls = <<NoCalls>>
    /\ IdleThreads

NextNormalize ==
    \/ CallOptimize
    \/ OptimizeAgain
    \/ OptimizeDone

SpecNormalize == InitNormalize /\ [][NextNormalize]_vars

(***************************************************************************)
(* SpecStats: one client holds what get_performance_stats or               *)
(* get_model_info returned (tmp), calls detect_faces, and writes into the  *)
(* value it holds.  A dict is an object: a returned value holds either a    *)
(* copy or the object itself.                                              *)
(***************************************************************************)
MaxDicts == 3

NoneValue == "None"

\* BATCH_SIZE
BatchSize(c) == IF c.GPU_AVAILABLE THEN 64 ELSE 16

NothingHeld == [kind |-> "none"]

\* dict.copy(): the copy has its own keys; the values are the same objects
ShallowCopy(stats) == [live |-> FALSE, copy |-> stats]

\* the dict itself
SameObject(i) == [live |-> TRUE, of |-> i]

\* 1.0 / average_processing_time
FacesPerSecond(avg) == IF avg.m # <<>> THEN [one_over |-> avg] ELSE NoneValue

\* the client is between calls; "wrote": its last step was a write into the
\* value it holds
HolderIdle == pc[Client] \in {"holding", "wrote"}

\* what get_performance_stats returns (read before _log_gpu_memory runs)
PerformanceStats(i) ==
    [ kind |-> "performance_stats",
      stats |-> ShallowCopy(objs[i].processing_stats),
      faces_per_second |-> FacesPerSecond(objs[i].processing_stats.average_processing_time) ]

\* what get_model_info returns
ModelInfo(i, c) ==
    [ kind |-> "model_info",
      model_name |-> "buffalo_l",
      model_loaded |-> objs[i].model_loaded,
      device_info |-> objs[i].device_info,
      using_gpu |-> objs[i].using_gpu,
      gpu_available |-> c.GPU_AVAILABLE,
      cuda_available |-> c.CUDA_AVAILABLE,
      onnx_gpu_available |-> c.ONNX_GPU_AVAILABLE,
      gpu_device_id |-> IF objs[i].using_gpu THEN GPU_DEVICE_ID ELSE -1,   \* -1: None
      embedding_dimension |-> 512,
      batch_size |-> BatchSize(c),
      max_workers |-> CFG_MAX_WORKERS,
      providers |-> c.ONNX_PROVIDERS,
      stats |-> SameObject(i),
      memory_optimization |-> c.ENABLE_MEMORY_OPTIMIZATION,
      parallel_processing |-> c.ENABLE_PARALLEL_PROCESSING ]

\* get_performance_stats: the copy is taken, then _log_gpu_memory runs on
\* self; the torch calls may work or raise this time
GetPerformanceStats ==
    /\ HolderIdle
    /\ Len(objs[1].dicts) < MaxDicts
    /\ tmp' = [tmp EXCEPT ![Client] = PerformanceStats(1)]
    /\ \E works \in BOOLEAN :
         objs' = [objs EXCEPT ![1] = IF @.using_gpu THEN log_gpu_memory(@, cfg, works) ELSE @]
    /\ pc' = [pc EXCEPT ![Client] = "holding"]
    /\ UNCHANGED <<cfg, face_processor, req, processing_lock, processor, faces,
                   elapsed, response, hist, calls, batch>>

GetModelInfo ==
    /\ HolderIdle
    /\ tmp' = [tmp EXCEPT ![Client] = ModelInfo(1, cfg)]
    /\ pc' = [pc EXCEPT ![Client] = "holding"]
    /\ UNCHANGED <<cfg, face_processor, objs, req, processing_lock, processor, faces,
                   elapsed, response, hist, calls, batch>>

\* the images the client has
StatsImages == {ImgOne, ImgNone, ImgFault}

\* the client calls detect_faces while it holds a returned value
HolderCallsDetect ==
    /\ HolderIdle
    /\ calls[1].returned < MaxCalls
    /\ \E image \in StatsImages :
         req' = [req EXCEPT ![Client] = Request("detect_faces", "", "ok", image, <<>>)]
    /\ processor' = [processor EXCEPT ![Client] = 1]
    /\ Goto(Client, "detect")
    /\ UNCHANGED <<cfg, face_processor, objs, faces, elapsed, tmp, hist, calls, batch>>

HolderReturn ==
    /\ pc[Client] = "returned"
    /\ req' = [req EXCEPT ![Client] = NoRequest]
    /\ faces' = [faces EXCEPT ![Client] = <<>>]
    /\ Goto(Client, "holding")
    /\ UNCHANGED <<cfg, face_processor, objs, processor, elapsed, tmp, hist, calls, batch>>

\* held['...'] = value on the returned dict itself
WriteHeldKey ==
    /\ HolderIdle
    /\ tmp[Client].kind # "none"
    /\ tmp[Client].kind = "performance_stats" => ~tmp[Client].stats.live
    /\ tmp' = [tmp EXCEPT ![Client] =
                  IF @.kind = "model_info" THEN [@ EXCEPT !.device_info = "modified"]
                  ELSE [@ EXCEPT !.stats.copy.total_processed = 99]]
    /\ pc' = [pc EXCEPT ![Client] = "wrote"]
    /\ UNCHANGED <<cfg, face_processor, objs, req, processing_lock, processor, faces,
                   elapsed, response, hist, calls, batch>>

\* held['processing_stats']['total_processed'] = value, on the dict that
\* get_model_info put under 'processing_stats'
WriteHeldStats ==
    /\ HolderIdle
    /\ tmp[Client].kind = "model_info"
    /\ IF tmp[Client].stats.live
       THEN /\ objs' = [objs EXCEPT ![tmp[Client].stats.of].processing_stats.total_processed = 99]
            /\ tmp' = tmp
       ELSE /\ tmp' = [tmp EXCEPT ![Client].stats.copy.total_processed = 99]
            /\ objs' = objs
    /\ pc' = [pc EXCEPT ![Client] = "wrote"]
    /\ UNCHANGED <<cfg, face_processor, req, processing_lock, processor, faces,
                   elapsed, response, hist, calls, batch>>

\* the usage dict a held value leads to (0: none)
HeldUsage(held) ==
    IF held.kind = "none" THEN 0
    ELSE IF held.stats.live THEN objs[held.stats.of].processing_stats.gpu_memory_usage
    ELSE held.stats.copy.gpu_memory_usage

\* held[...]['gpu_memory_usage']['allocated_mb'] = value
WriteHeldUsage ==
    /\ HolderIdle
    /\ HeldUsage(tmp[Client]) # 0
    /\ objs' = [objs EXCEPT ![1].dicts[HeldUsage(tmp[Client])].allocated_mb = "modified"]
    /\ pc' = [pc EXCEPT ![Client] = "wrote"]
    /\ UNCHANGED <<cfg, face_processor, req, processing_lock, processor, faces,
                   elapsed, tmp, response, hist, calls, batch>>

InitStats ==
    /\ cfg \in ServiceConfigs
    /\ face_processor = 0
    /\ \E p \in Processors(cfg) : objs = <<p>>
    /\ calls = <<NoCalls>>
    /\ pc = [t \in Threads |-> IF t = Client THEN "holding" ELSE "new"]
    /\ req = [t \in Threads |-> NoRequest]
    /\ processing_lock = [t \in Threads |-> 0]
    /\ processor = [t \in Threads |-> 0]
    /\ faces = [t \in Threads |-> <<>>]
    /\ elapsed = [t \in Threads |-> 0]
    /\ tmp = [t \in Threads |-> NothingHeld]
    /\ response = [t \in Threads |-> NoReply]
    /\ hist = NoHist
    /\ batch = NoBatch

NextStats ==
    \/ GetPerformanceStats
    \/ GetModelInfo
    \/ HolderCallsDetect
    \/ DetectEnter(Client)
    \/ DetectExit(Client)
    \/ HolderReturn
    \/ WriteHeldKey
    \/ WriteHeldStats
    \/ WriteHeldUsage

SpecStats == InitStats /\ [][NextStats]_vars

(***************************************************************************)
(* Claims.                                                                 *)
(***************************************************************************)
Range(q) == { q[i] : i \in DOMAIN q }

\* C1 (Spec): at no time are more than MAX_WORKERS detect_faces calls in
\* progress.
C1_AtMostMaxWorkersDetect ==
    Cardinality({ t \in Threads : InDetect(t) }) <= MAX_WORKERS

PreferredCpu == cfg.FORCE_CPU \/ ~cfg.GPU_AVAILABLE

OnCpu(load) == load.providers = <<"CPUExecutionProvider">> /\ load.ctx_id = -1

\* C2 (SpecInit): FaceProcessor() raises only if the first load failed and
\* either the preferred backend was the CPU or a second load, on the CPU,
\* failed too; when it does not raise, the model is loaded (so an accelerator
\* failure followed by a CPU success returns with model_loaded = TRUE).
C2_RaisesOnlyIfCpuFailsToo ==
    \A i \in 1..Len(objs) :
        LET o == objs[i]
        IN  /\ o.raised =>
                 /\ o.loads[1].outcome # "ok"
                 /\ \/ PreferredCpu /\ Len(o.loads) = 1
                    \/ /\ Len(o.loads) = 2
                       /\ OnCpu(o.loads[2])
                       /\ o.loads[2].outcome # "ok"
            /\ ~o.raised => o.model_loaded /\ o.loads[Len(o.loads)].outcome = "ok"

\* C2 witness: the accelerator load failed, the CPU load succeeded, and the
\* constructor returned with the model loaded.
C2_Witness ==
    \E i \in 1..Len(objs) :
        /\ Len(objs[i].loads) = 2
        /\ ~OnCpu(objs[i].loads[1])
        /\ objs[i].loads[1].outcome # "ok"
        /\ objs[i].loads[2].outcome = "ok"
        /\ ~objs[i].raised
        /\ objs[i].model_loaded

\* C3 (Spec): at most one FaceProcessor is ever returned by its constructor,
\* and every detection runs on that one session.
C3_InitialisedOnce ==
    /\ Len(objs) <= 1
    /\ \A t \in Threads : InDetect(t) => processor[t] = hist.first

\* C4 (Spec): a call of get_face_processor made after one call has succeeded
\* returns the session that call returned, and runs no download and no load.
C4_LaterCallsReturnCachedSession ==
    \A t \in Threads :
        hist.after_success[t] /\ processor[t] # 0 =>
            processor[t] = hist.first /\ ~hist.attempted[t]

\* C5 (Spec): a request that starts after a FaceProcessor() has raised runs no
\* download and no load, does not exit the process, and if it asks for a
\* detection it fails with the model-not-loaded error.
C5_AfterFailedInitNotLoaded ==
    \A t \in Threads :
        hist.after_failure[t] =>
            /\ ~hist.attempted[t]
            /\ response[t].status # SystemExit
            /\ pc[t] = "done" /\ req[t].path # "missing" =>
                   response[t].error = "Face model not loaded"

\* an image on which the try block of detect_faces raises: the resize, the
\* model, or the record of a detection that passed the size test
ResizeFails(image, using_gpu) ==
    /\ Max2(image.shape[1], image.shape[2]) > MaxDim(using_gpu)
    /\ \/ (image.shape[1] * MaxDim(using_gpu)) \div Max2(image.shape[1], image.shape[2]) = 0
       \/ (image.shape[2] * MaxDim(using_gpu)) \div Max2(image.shape[1], image.shape[2]) = 0

RecordFails(image) ==
    \E i \in 1..Len(image.raw) :
        /\ ~image.raw[i].good
        /\ AsInt(image.raw[i].bbox[3]) - AsInt(image.raw[i].bbox[1]) >= MIN_FACE_SIZE
        /\ AsInt(image.raw[i].bbox[4]) - AsInt(image.raw[i].bbox[2]) >= MIN_FACE_SIZE

Faulty(image, using_gpu) ==
    ResizeFails(image, using_gpu) \/ image.model_raises \/ RecordFails(image)

\* C6 (SpecBatch): on a faulty image detect_faces returns the empty list, and
\* process_batch on a non-empty batch does not raise and returns the empty
\* list under every path whose image is faulty.
C6_FaultsBecomeEmptyResults ==
    /\ \A t \in Threads :
          /\ pc[t] \in {"returned", "locked"}
          /\ req[t].fetch = "ok"
          /\ Faulty(req[t].image, objs[1].using_gpu)
          => faces[t] = <<>>
    /\ batch.image_paths # <<>> => batch.state # "raised"
    /\ batch.state = "returned" =>
          \A path \in Range(batch.image_paths) :
              Readable(path) /\ Faulty(FileImage(path), objs[1].using_gpu) =>
                  path \in DOMAIN batch.results /\ batch.results[path] = <<>>

\* C6 witness: a batch has returned with the empty list under b.jpg (record
\* fault), d.jpg (model fault) and e.jpg (resize fault).
C6_Witness ==
    /\ batch.state = "returned"
    /\ {"b.jpg", "d.jpg", "e.jpg"} \subseteq DOMAIN batch.results
    /\ batch.results["b.jpg"] = <<>>
    /\ batch.results["d.jpg"] = <<>>
    /\ batch.results["e.jpg"] = <<>>
    /\ calls[1].returned = 3

\* C7 (SpecDetect): between calls, total_processed is the number of
\* detect_faces calls that returned (raising ones included) and
\* total_faces_detected the sum of the lengths of their results.
C7_StatsCountEveryCall ==
    pc[Client] \in {"new", "returned"} =>
        /\ objs[1].processing_stats.total_processed = calls[1].returned
        /\ objs[1].processing_stats.total_faces_detected = calls[1].faces

\* C8 (SpecBatch): once process_batch has returned, total_processed is the
\* number of detect_faces calls that completed their try block and
\* total_faces_detected the sum of the lengths of their results.
C8_NoLostUpdate ==
    batch.state = "returned" =>
        /\ objs[1].processing_stats.total_processed = calls[1].completed
        /\ objs[1].processing_stats.total_faces_detected = calls[1].faces

\* C9 (SpecBatch): process_batch never raises, and when it returns every
\* worker has finished and the keys of the mapping are the paths given.
C9_BatchReturnsEveryKey ==
    /\ batch.state # "raised"
    /\ batch.state = "returned" =>
          /\ DOMAIN batch.results = Range(batch.image_paths)
          /\ Joined

\* the raw detections the opaque model handed back (none when the call never
\* got that far)
RawDetections(image, using_gpu) ==
    IF ResizeFails(image, using_gpu) \/ image.model_raises THEN <<>> ELSE image.raw

KeptBySize(face) ==
    /\ AsInt(face.bbox[3]) - AsInt(face.bbox[1]) >= MIN_FACE_SIZE
    /\ AsInt(face.bbox[4]) - AsInt(face.bbox[2]) >= MIN_FACE_SIZE

RecordOf(face) ==
    [ bbox |-> << AsInt(face.bbox[1]), AsInt(face.bbox[2]),
                  AsInt(face.bbox[3]) - AsInt(face.bbox[1]),
                  AsInt(face.bbox[4]) - AsInt(face.bbox[2]) >>,
      confidence |-> face.det_score,
      embedding |-> face.embedding ]

ExpectedFaces(raw) ==
    LET kept == SelectSeq(raw, KeptBySize)
    IN  [i \in 1..Len(kept) |-> RecordOf(kept[i])]

DetectReturned ==
    pc[Client] = "returned" /\ req[Client].kind = "detect_faces"

\* C10 as claimed (SpecDetect): the result of detect_faces is the records of
\* the raw detections that pass the size test, in detector order.
C10_ResultIsSizeFilter ==
    DetectReturned =>
        faces[Client] = ExpectedFaces(RawDetections(req[Client].image, objs[1].using_gpu))

\* C10 amended (SpecDetect): unless building a record raised, in which case
\* the result is empty, the result of detect_faces is the records of the raw
\* detections that pass the size test (a dimension equal to MIN_FACE_SIZE
\* passes), in detector order; every returned record has w and h >=
\* MIN_FACE_SIZE.
C10_ResultIsSizeFilterUnlessRaised ==
    DetectReturned =>
        /\ faces[Client] =
             IF RecordFails(req[Client].image) THEN <<>>
             ELSE ExpectedFaces(RawDetections(req[Client].image, objs[1].using_gpu))
        /\ \A i \in 1..Len(faces[Client]) :
             faces[Client][i].bbox[3] >= MIN_FACE_SIZE /\ faces[Client][i].bbox[4] >= MIN_FACE_SIZE

\* C10 witness: a call returned the exactly 50 x 50 detection and dropped the
\* 49-wide one before it.
C10_Witness ==
    /\ DetectReturned
    /\ req[Client].image.raw = <<FaceNarrow, FaceExact>>
    /\ Len(faces[Client]) = 1
    /\ faces[Client][1].bbox = <<10, 20, 50, 50>>

\* the opaque model was called on the image and returned no detection
NoRawDetections(image, using_gpu) ==
    /\ ~ResizeFails(image, using_gpu)
    /\ ~image.model_raises
    /\ image.raw = <<>>

\* C11 (SpecDetect): while a detect_faces call on an image with zero raw
\* detections is under way no step changes total_faces_detected, and the call
\* returns the empty list.
C11_NoDetectionsNoFaces ==
    [][ /\ req[Client].kind = "detect_faces"
        /\ NoRawDetections(req[Client].image, objs[1].using_gpu)
        => /\ objs'[1].processing_stats.total_faces_detected =
                objs[1].processing_stats.total_faces_detected
           /\ pc'[Client] = "returned" => faces'[Client] = <<>> ]_vars

\* C11 witness: a call with zero raw detections has returned after earlier
\* calls had counted faces.
C11_Witness ==
    /\ DetectReturned
    /\ NoRawDetections(req[Client].image, objs[1].using_gpu)
    /\ faces[Client] = <<>>
    /\ calls[1].completed >= 2
    /\ objs[1].processing_stats.total_faces_detected > 0

\* the request of the client was answered with a ranking
Ranked ==
    /\ pc[Client] = "done"
    /\ req[Client].kind = "compare_faces"
    /\ response[Client].status = 200

SimilaritiesOf(matches) == [i \in 1..Len(matches) |-> matches[i].similarity]

\* every reordering of a list
Reorderings(q) ==
    { [i \in 1..Len(q) |-> q[f[i]]] :
        f \in { g \in [1..Len(q) -> 1..Len(q)] : \A i, j \in 1..Len(q) : g[i] = g[j] => i = j } }

\* C12 (SpecMatch): a ranking has one result per candidate, no later result
\* has a greater similarity than an earlier one, and every reordering of the
\* candidates gives the same sequence of similarity values.
C12_RankingSortedForEveryOrder ==
    Ranked =>
        LET body == response[Client].body
            probe == faces[Client][1].embedding
        IN  /\ Len(body) = Len(req[Client].embeddings)
            /\ \A i, j \in 1..Len(body) :
                 i < j => ~IsLT(body[i].similarity, body[j].similarity)
            /\ \A q \in Reorderings(req[Client].embeddings) :
                 SimilaritiesOf(Matches(probe, q)) = SimilaritiesOf(body)

\* a compare_faces request without selfie or without stored embeddings
EmptyInput(r) ==
    r.kind = "compare_faces" /\ (r.path = "missing" \/ Len(r.embeddings) = 0)

\* C13 (SpecMatch): a compare_faces request whose selfie or whose list of
\* stored embeddings is empty is answered 400 "selfieData and embeddings are
\* required" in the step it arrives: no detect_faces call is made for it and
\* no processor's statistics change.
C13_EmptyInputRejectedFirst ==
    [][ req'[Client] # req[Client] /\ EmptyInput(req'[Client])
        => /\ pc'[Client] = "done"
           /\ response'[Client].status = 400
           /\ response'[Client].error = "selfieData and embeddings are required"
           /\ objs' = objs
           /\ calls' = calls ]_vars

\* C13 witness: after a detection has run, a request with a selfie and an
\* empty list of embeddings was answered 400 and the statistics still count
\* one call.
C13_Witness ==
    /\ pc[Client] = "done"
    /\ req[Client].path = "selfie"
    /\ req[Client].embeddings = <<>>
    /\ response[Client].status = 400
    /\ calls[1].returned = 1
    /\ objs[1].processing_stats.total_processed = 1

\* C14 (SpecInit): with FORCE_CPU set, on every machine GPU_AVAILABLE is
\* false and ONNX_PROVIDERS is the CPU provider alone, and every
\* FaceProcessor loads with the CPU provider, ctx_id -1 and the 640
\* detection size, and has using_gpu = FALSE.
C14_ForceCpuBindsCpu ==
    cfg.FORCE_CPU =>
        /\ ~cfg.GPU_AVAILABLE
        /\ cfg.ONNX_PROVIDERS = <<"CPUExecutionProvider">>
        /\ \A i \in 1..Len(objs) :
              /\ ~objs[i].using_gpu
              /\ \A k \in 1..Len(objs[i].loads) :
                    /\ objs[i].loads[k].providers = <<"CPUExecutionProvider">>
                    /\ objs[i].loads[k].ctx_id = -1
                    /\ objs[i].loads[k].det_size = 640
              /\ objs[i].model_loaded =>
                    /\ objs[i].app.providers = <<"CPUExecutionProvider">>
                    /\ objs[i].app.det_size = 640

\* C14 witness: FORCE_CPU on a machine where both probes would see CUDA, and
\* a session was loaded on the CPU.
C14_Witness ==
    /\ cfg.FORCE_CPU
    /\ cfg.machine = CudaMachine
    /\ Len(objs) >= 1
    /\ objs[1].model_loaded
    /\ ~objs[1].using_gpu
    /\ objs[1].device_info = "CPU"
    /\ objs[1].app.det_size = 640

\* no detect_faces call of the client is under way
Quiescent == pc[Client] \in {"new", "returned"}

\* the average the recurrence gives after calls of the given durations
RECURSIVE ExpectedAverage(_)
ExpectedAverage(times) ==
    IF times = <<>> THEN FZero
    ELSE LET before == ExpectedAverage(SubSeq(times, 1, Len(times) - 1))
             time == FloatOf(times[Len(times)], 10)
         IN  IF before = FZero THEN time
             ELSE FloatAdd(FloatMul(FloatOf(9, 10), before), FloatMul(FloatOf(1, 10), time))

\* the float a little above x (x not the largest of its binade)
NextAfter(x) == [m |-> BigAdd(x.m, <<1>>), e |-> x.e]

\* C15 as claimed (SpecDetect): between calls the average is what the
\* recurrence gives over the completed calls, and after a 0.2 s call then a
\* 0.1 s call it is the float 0.19.
C15_AverageIsPoint19 ==
    Quiescent =>
        /\ objs[1].processing_stats.average_processing_time = ExpectedAverage(calls[1].times)
        /\ calls[1].times = <<2, 1>> =>
              objs[1].processing_stats.average_processing_time = FloatOf(19, 100)

\* C15 amended (SpecDetect): between calls the average is what the
\* recurrence gives over the completed calls, evaluated in floats; after a
\* 0.2 s call then a 0.1 s call it is 0.19000000000000003, the float next
\* above 0.19.
C15_AverageIsNextAbovePoint19 ==
    Quiescent =>
        /\ objs[1].processing_stats.average_processing_time = ExpectedAverage(calls[1].times)
        /\ calls[1].times = <<2, 1>> =>
              objs[1].processing_stats.average_processing_time = NextAfter(FloatOf(19, 100))

\* C15 witness: a 0.2 s call then a 0.1 s call have completed.
C15_Witness ==
    /\ Quiescent
    /\ calls[1].times = <<2, 1>>
    /\ objs[1].processing_stats.total_processed = 2
    /\ objs[1].processing_stats.average_processing_time # FloatOf(2, 10)
    /\ objs[1].processing_stats.average_processing_time # FZero

\* |edge_out - edge_in * max_dim / longer| <= 1, in integers
WithinOnePixel(edge_out, edge_in, max_dim, longer) ==
    /\ edge_out * longer <= edge_in * max_dim + longer
    /\ edge_out * longer >= edge_in * max_dim - longer

\* C16 (SpecNormalize): for every input size normalize returns an image; its
\* longer edge is <= max_dim, no edge is longer than the input's, each edge
\* is within one pixel of the exactly scaled value, and an input whose longer
\* edge is <= max_dim keeps its size.
C16_NormalizeReturnsBoundedImage ==
    pc[Client] = "optimized" =>
        LET input == req[Client].image.shape
            output == tmp[Client].shape
            max_dim == MaxDim(objs[1].using_gpu)
            longer == Max2(input[1], input[2])
        IN  /\ ~tmp[Client].raised
            /\ Max2(output[1], output[2]) <= max_dim
            /\ output[1] <= input[1] /\ output[2] <= input[2]
            /\ IF longer <= max_dim THEN output = input
               ELSE /\ WithinOnePixel(output[1], input[1], max_dim, longer)
                    /\ WithinOnePixel(output[2], input[2], max_dim, longer)

\* C17 (SpecNormalize): normalize applied to an image that normalize returned
\* returns an image of the same size.
C17_NormalizeIdempotent ==
    pc[Client] = "optimized_again" =>
        /\ ~tmp[Client].raised
        /\ tmp[Client].shape = req[Client].image.shape

\* C17 witness: on a CPU session a 3000 x 4000 image came back 768 x 1024, and
\* that image came back 768 x 1024 again.
C17_Witness ==
    /\ pc[Client] = "optimized_again"
    /\ ~objs[1].using_gpu
    /\ req[Client].image.shape = <<768, 1024>>
    /\ tmp[Client].shape = <<768, 1024>>

\* the dict a held value has under its statistics
HeldStats(held) ==
    IF held.stats.live THEN objs[held.stats.of].processing_stats ELSE held.stats.copy

\* the usage dict number `usage` read through: its entries, or nothing for 0
UsageEntries(usage) == IF usage = 0 THEN <<>> ELSE <<objs[1].dicts[usage]>>

\* everything read through a dict of statistics
StatsView(stats) ==
    [ total_processed |-> stats.total_processed,
      total_faces_detected |-> stats.total_faces_detected,
      average_processing_time |-> stats.average_processing_time,
      gpu_memory_usage |-> UsageEntries(stats.gpu_memory_usage) ]

\* the counters and the average read through a held value
HeldCounters ==
    << HeldStats(tmp[Client]).total_processed,
       HeldStats(tmp[Client]).total_faces_detected,
       HeldStats(tmp[Client]).average_processing_time >>

\* the statistics of the processor, read through
ProcessorStats == StatsView(objs[1].processing_stats)

DetectUnderWay == pc[Client] \in {"detect", "in_detect"}

\* C18 (SpecStats): while the client holds what get_performance_stats
\* returned, no step of a detect_faces call changes the counters or the
\* average read from it, and no write of the client into it changes the
\* statistics of the processor.
C18_PerformanceStatsIsCopy ==
    [][ tmp[Client].kind = "performance_stats" =>
          /\ DetectUnderWay => HeldCounters' = HeldCounters
          /\ pc'[Client] = "wrote" => ProcessorStats' = ProcessorStats ]_vars

\* the session state and the statistics of the processor
ProcessorState ==
    [ app |-> objs[1].app, model_loaded |-> objs[1].model_loaded,
      using_gpu |-> objs[1].using_gpu, device_info |-> objs[1].device_info,
      processing_stats |-> ProcessorStats ]

\* everything read through what get_model_info returned
HeldInfoView ==
    [ model_loaded |-> tmp[Client].model_loaded,
      device_info |-> tmp[Client].device_info,
      using_gpu |-> tmp[Client].using_gpu,
      providers |-> tmp[Client].providers,
      processing_stats |-> StatsView(HeldStats(tmp[Client])) ]

\* C19 (SpecStats): while the client holds what get_model_info returned, no
\* step of a detect_faces call changes anything read through it, and no
\* write of the client into it changes the state of the processor.
C19_ModelInfoIsSnapshot ==
    [][ tmp[Client].kind = "model_info" =>
          /\ DetectUnderWay => HeldInfoView' = HeldInfoView
          /\ pc'[Client] = "wrote" => ProcessorState' = ProcessorState ]_vars

\* the providers get_onnx_providers adds for an accelerator
AcceleratorProviders ==
    {"TensorrtExecutionProvider", "CUDAExecutionProvider", "DmlExecutionProvider"}

\* the load attempt ran on an accelerator backend: the provider list handed
\* to FaceAnalysis starts with an accelerator provider
OnAccelerator(load) ==
    load.providers # <<>> /\ load.providers[1] \in AcceleratorProviders

\* C20: one initialisation makes at most two load attempts; a second attempt
\* is made only after the first attempt failed on an accelerator backend, and
\* it uses the CPU provider with ctx_id -1 and the 640 detection size; the
\* session that results from it has using_gpu = FALSE and the device label
\* "CPU (fallback)", and no object carries that label without a second attempt
C20_SecondAttemptOnlyAfterAcceleratorFailed ==
    \A i \in 1..Len(objs) :
        LET o == objs[i]
        IN  /\ Len(o.loads) <= 2
            /\ Len(o.loads) = 2 =>
                 /\ o.loads[1].outcome # "ok"
                 /\ OnAccelerator(o.loads[1])
                 /\ OnCpu(o.loads[2])
                 /\ o.loads[2].det_size = 640
                 /\ ~o.raised => ~o.using_gpu /\ o.device_info = "CPU (fallback)"
            /\ o.device_info = "CPU (fallback)" => Len(o.loads) = 2

\* C21: whenever an accelerator is detected by either probe and CPU is not
\* forced, the provider list of the first load attempt starts with an
\* accelerator provider, and a loaded session with using_gpu = TRUE never has
\* the CPU provider as its only provider
C21_FirstLoadBindsAccelerator ==
    \A i \in 1..Len(objs) :
        LET o == objs[i]
        IN  /\ (cfg.GPU_AVAILABLE /\ ~cfg.FORCE_CPU /\ o.loads # <<>>)
                 => OnAccelerator(o.loads[1])
            /\ (~o.raised /\ o.using_gpu)
                 => o.app.providers # <<"CPUExecutionProvider">>

\* a step of the torch probe fails: the import, is_available(), or a device
\* query made after is_available() answered True
TorchProbeFails(m) == m.torch \in {"missing", "raises", "query_fails"}

\* a step of the onnxruntime probe fails: the import or get_available_providers()
OrtProbeFails(m) == m.ort.state # "ok"

\* C22: if any step of probing one capability fails, also a device query made
\* after availability was answered positively, detect_gpu_availability reports
\* that capability as not available, and the answer for the other capability
\* is the same as on a machine where the failing probe behaves otherwise
C22_FailedProbeMeansNotAvailable ==
    LET m == cfg.machine
        r == detect_gpu_availability(m)
    IN  /\ TorchProbeFails(m) => ~r.has_cuda
        /\ OrtProbeFails(m) => ~r.has_gpu_onnx
        /\ \A t \in TorchKinds :
             detect_gpu_availability([m EXCEPT !.torch = t]).has_gpu_onnx = r.has_gpu_onnx
        /\ \A o \in OrtKinds :
             detect_gpu_availability([m EXCEPT !.ort = o]).has_cuda = r.has_cuda
        /\ cfg.CUDA_AVAILABLE => ~TorchProbeFails(m)
        /\ cfg.ONNX_GPU_AVAILABLE => ~OrtProbeFails(m)

\* C23: total_processed and total_faces_detected are monotonic: no step of
\* any interleaving of concurrent detect calls decreases either counter of a
\* FaceProcessor
C23_CountersMonotonic ==
    [][ \A i \in 1..Len(objs) :
          /\ objs'[i].processing_stats.total_processed
               >= objs[i].processing_stats.total_processed
          /\ objs'[i].processing_stats.total_faces_detected
               >= objs[i].processing_stats.total_faces_detected ]_vars

\* the session state of a FaceProcessor
SessionState(o) ==
    [ app |-> o.app, using_gpu |-> o.using_gpu, device_info |-> o.device_info,
      model_loaded |-> o.model_loaded ]

\* C24: once initialisation has returned successfully, no step of any
\* operation (detect_faces, get_model_info, get_performance_stats, a write of
\* the caller into a returned value), succeeding or failing, changes the
\* bound model object, using_gpu, device_info or model_loaded
C24_SessionStateFixed ==
    [][ \A i \in 1..Len(objs) :
          ~objs[i].raised => SessionState(objs'[i]) = SessionState(objs[i]) ]_vars

\* a session on the accelerator branch has served a detect call that
\* succeeded and one that failed, and the client holds a value returned by
\* get_performance_stats or get_model_info
C24_Witness ==
    /\ objs[1].using_gpu
    /\ calls[1].completed >= 1
    /\ calls[1].returned > calls[1].completed
    /\ tmp[Client].kind \in {"performance_stats", "model_info"}

\* C25 (Spec): every FaceProcessor whose construction returned, and so the
\* session get_face_processor has stored, has model_loaded = TRUE and a model
\* object; no request ends in the model-not-loaded branch of detect_faces
C25_StoredSessionHasModel ==
    /\ \A i \in 1..Len(objs) :
         ~objs[i].raised => objs[i].model_loaded /\ objs[i].app # NoApp
    /\ face_processor # 0 =>
         /\ face_processor \in 1..Len(objs)
         /\ objs[face_processor].model_loaded
         /\ objs[face_processor].app # NoApp
    /\ \A t \in Threads : response[t].error # "Face model not loaded"

\* a session stored after the accelerator load failed and the CPU load
\* succeeded has answered a request with a detection result
C25_Witness ==
    /\ face_processor # 0
    /\ Len(objs[face_processor].loads) = 2
    /\ \E t \in Threads :
         /\ pc[t] = "done"
         /\ processor[t] = face_processor
         /\ response[t].status = 200

\* C26 (SpecNormalize): for every input image with height >= 1 and width >= 1
\* the target size _optimize_image_for_processing computes has both edges
\* >= 1, so the resize does not raise
C26_TargetEdgesPositive ==
    pc[Client] = "optimized" =>
        /\ req[Client].image.shape[1] >= 1 /\ req[Client].image.shape[2] >= 1
        /\ tmp[Client].shape[1] >= 1
        /\ tmp[Client].shape[2] >= 1
        /\ ~DetectTry(req[Client].image, objs[1].using_gpu).raised

====
